---- MODULE Spec2Model ----
(***************************************************************************)
(* Model of the Koji database SDK client (src/src/adapter/DatabaseAdapter.ts):*)
(* a DatabaseAdapter owns a configuration, a mode and a transaction queue;  *)
(* every public method is an async function that either sends one HTTP      *)
(* request now or, on a transaction-mode instance, queues it for one        *)
(* combined commit.                                                         *)
(*                                                                          *)
(* An async method runs synchronously up to its first await; the rest of    *)
(* its body runs when the awaited value settles.  Each method is therefore  *)
(* one action for the part before the await and one continuation operator   *)
(* applied when the awaited value settles.                                  *)
(***************************************************************************)
EXTENDS Bags, FiniteSets, Integers, Sequences, TLC

VARIABLES
    env,         \* process.env: KOJI_PROJECT_ID, KOJI_PROJECT_TOKEN, NODE_TEST
    clients,     \* the DatabaseAdapter instances, in order of construction
    network,     \* bag of HTTP requests sent and not yet answered
    calls,       \* the suspended method invocations (each at its await)
    last,        \* the invocation that just settled and its result, until the caller goes on
    invoked,     \* history: per transaction instance, the mutations invoked on it
    committed,   \* history: per instance, whether a commitTransaction() of it has settled
    store,       \* the documents of the remote store, by collection and name
    app          \* the application: the call it made last, and what the results of
                 \* its calls tell it of each document

vars == <<env, clients, network, calls, last, invoked, committed, store, app>>

----------------------------------------------------------------------------
(* Bounds of the model *)

\* The number of instances constructed in a run.
MaxClients == 2
\* The number of operations queued in a run, over all instances.
MaxQueued == 2
\* The number of instances constructed in a run of overlapping calls.
MaxInstances == 4
\* The number of calls the application has started and not yet seen settle.
MaxOverlap == 2

----------------------------------------------------------------------------
(* Values *)

\* A JavaScript undefined (an absent object, an async function's empty return).
Undefined == [undefined |-> TRUE]

\* process.env.X of a variable that is not set.
Unset == "<unset>"

\* JavaScript falsiness of process.env.X: undefined or the empty string.
Falsy(v) == v = Unset \/ v = ""

IMMEDIATE == "immediate"
TRANSACTION == "transaction"
DatabaseAdapterMode == {TRANSACTION, IMMEDIATE}

JsTrue == [bool |-> TRUE]
JsFalse == [bool |-> FALSE]
Json(x) == [json |-> x]

Error(message) == [name |-> "Error", message |-> message]
Return(value) == [kind |-> "return", value |-> value]
Throw(error) == [kind |-> "throw", error |-> error]

ConfigurationError == Error("Couldn't find a KOJI_PROJECT_ID or KOJI_PROJECT_TOKEN in your environment.")
UnavailableInTransaction == Error("not available inside transaction")
NotInTransaction == Error("not in a trasaction")
DocumentNotFound == Error("Document not found")
ServiceError == Error("Service error")

----------------------------------------------------------------------------
(* Inputs *)

Environments ==
    { [KOJI_PROJECT_ID |-> "p1", KOJI_PROJECT_TOKEN |-> "t1", NODE_TEST |-> Unset],
      [KOJI_PROJECT_ID |-> Unset, KOJI_PROJECT_TOKEN |-> "t1", NODE_TEST |-> "1"],
      [KOJI_PROJECT_ID |-> "p1", KOJI_PROJECT_TOKEN |-> "", NODE_TEST |-> Unset] }
CustomConfigs == {[projectId |-> "p2", projectToken |-> "t2"]}
Collections == {"c"}
DocumentNames == {"d1"}
DocumentBodies == {"B"}

\* What the remote service may answer.  A request-promise rejection is a
\* StatusCodeError (non-2xx answer, with statusCode) or a RequestError (no
\* answer at all, no statusCode).
RemoteErrors ==
    { [name |-> "StatusCodeError", statusCode |-> 404],
      [name |-> "StatusCodeError", statusCode |-> 500],
      [name |-> "RequestError"] }

Documents == {"D1"}

\* The remote store: under each collection and document name, a document or none.
Absent == [absent |-> TRUE]
EmptyStore == [key \in Collections \X DocumentNames |-> Absent]

\* What the application knows of a document whose state it cannot tell.
Unknown == [unknown |-> TRUE]
NoCall == [client |-> 0, op |-> "none", key |-> Undefined, body |-> Undefined]

Resolved(response) == [ok |-> TRUE, response |-> response]
Rejected(err) == [ok |-> FALSE, err |-> err]
NoOutcome == [none |-> TRUE]

\* The value of last when no result is waiting for the caller.
Nothing ==
    [client |-> 0, op |-> "none", input |-> Undefined, outcome |-> NoOutcome,
     result |-> Return(Undefined)]

\* err.statusCode === n
HasStatusCode(err, n) == "statusCode" \in DOMAIN err /\ err.statusCode = n

Responses(op) ==
    CASE op \in {"get", "getWhere"} -> {[document |-> d] : d \in Documents}
      [] op = "getCollections" -> {[collections |-> <<"c">>]}
      [] op \in {"search", "getAll", "getAllWhere"} -> {[results |-> <<"D1">>]}
      [] op = "uploadFile" -> {[text |-> "valid", parsed |-> [url |-> "u"]], [text |-> "invalid"]}
      [] op = "generateSignedUploadRequest" -> {[url |-> "u", signedRequest |-> "s"]}
      [] op = "transcodeAsset" -> {[url |-> "u", callbackTokens |-> <<"k">>]}
      [] op = "getTranscodeStatus" -> {[isResolved |-> TRUE], [isResolved |-> FALSE]}
      [] OTHER -> {[status |-> "2xx"]}

Outcomes(op) == {Resolved(r) : r \in Responses(op)} \cup {Rejected(e) : e \in RemoteErrors}

----------------------------------------------------------------------------
(* Helpers of the class *)

ClientIds == 1..Len(clients)

buildUri(path) ==
    IF ~Falsy(env.NODE_TEST)
        THEN "http://localhost:3129" \o path
        ELSE "https://database.api.gokoji.com" \o path

authHeaders(c) ==
    ("X-Koji-Project-Id" :> clients[c].config.projectId)
        @@ ("X-Koji-Project-Token" :> clients[c].config.projectToken)

headers(c) == ("Content-Type" :> "application/json") @@ authHeaders(c)

\* Variant of request: a request equal to one already queued is not queued again.
requestSkipsDuplicate(c, options) ==
    IF clients[c].mode = TRANSACTION
        THEN [queue |-> IF \E i \in 1..Len(clients[c].transactionQueue) :
                                clients[c].transactionQueue[i] = options
                          THEN clients[c].transactionQueue
                          ELSE Append(clients[c].transactionQueue, options),
              sent |-> <<>>,
              returns |-> "undefined"]
        ELSE [queue |-> clients[c].transactionQueue,
              sent |-> <<options>>,
              returns |-> "promise"]

\* Variant of request: the queue is assigned the new request, not pushed to.
requestOverwritesQueue(c, options) ==
    IF clients[c].mode = TRANSACTION
        THEN [queue |-> <<options>>, sent |-> <<>>, returns |-> "undefined"]
        ELSE [queue |-> clients[c].transactionQueue,
              sent |-> <<options>>,
              returns |-> "promise"]

\* Variant of request: the request is pushed on the queue in every mode.
requestQueuesAlways(c, options) ==
    IF clients[c].mode = TRANSACTION
        THEN [queue |-> Append(clients[c].transactionQueue, options),
              sent |-> <<>>,
              returns |-> "undefined"]
        ELSE [queue |-> Append(clients[c].transactionQueue, options),
              sent |-> <<options>>,
              returns |-> "promise"]

\* Variant of request: the request is sent a second time.
requestSendsTwice(c, options) ==
    IF clients[c].mode = TRANSACTION
        THEN [queue |-> Append(clients[c].transactionQueue, options),
              sent |-> <<>>,
              returns |-> "undefined"]
        ELSE [queue |-> clients[c].transactionQueue,
              sent |-> <<options, options>>,
              returns |-> "promise"]

\* Variant of request: unshift instead of push.
requestPushesFront(c, options) ==
    IF clients[c].mode = TRANSACTION
        THEN [queue |-> <<options>> \o clients[c].transactionQueue,
              sent |-> <<>>,
              returns |-> "undefined"]
        ELSE [queue |-> clients[c].transactionQueue,
              sent |-> <<options>>,
              returns |-> "promise"]

\* Variant of request: the else is missing, a queued request is sent as well.
requestAlwaysSends(c, options) ==
    [queue |-> IF clients[c].mode = TRANSACTION
                 THEN Append(clients[c].transactionQueue, options)
                 ELSE clients[c].transactionQueue,
     sent |-> <<options>>,
     returns |-> "promise"]

\* request(options): on a transaction-mode instance push the options on the
\* queue and return undefined; otherwise send them and return the promise.
request(c, options) ==
    IF clients[c].mode = TRANSACTION
        THEN [queue |-> Append(clients[c].transactionQueue, options),
              sent |-> <<>>,
              returns |-> "undefined"]
        ELSE [queue |-> clients[c].transactionQueue,
              sent |-> <<options>>,
              returns |-> "promise"]

\* rp(options) called directly: always sends.
rp(c, options) ==
    [queue |-> clients[c].transactionQueue, sent |-> <<options>>, returns |-> "promise"]

\* Variant of the constructor: && for ||, it fails only when both variables are missing.
NewDatabaseAdapterNeedsOneVariable(customConfig, mode) ==
    IF customConfig # Undefined
        THEN [ok |-> TRUE,
              object |-> [config |-> customConfig, mode |-> mode, transactionQueue |-> <<>>]]
        ELSE IF Falsy(env.KOJI_PROJECT_ID) /\ Falsy(env.KOJI_PROJECT_TOKEN)
            THEN [ok |-> FALSE, error |-> ConfigurationError]
            ELSE [ok |-> TRUE,
                  object |-> [config |-> [projectId |-> env.KOJI_PROJECT_ID,
                                          projectToken |-> env.KOJI_PROJECT_TOKEN],
                              mode |-> mode,
                              transactionQueue |-> <<>>]]

\* new DatabaseAdapter(customConfig, mode)
NewDatabaseAdapter(customConfig, mode) ==
    IF customConfig # Undefined
        THEN [ok |-> TRUE,
              object |-> [config |-> customConfig, mode |-> mode, transactionQueue |-> <<>>]]
        ELSE IF Falsy(env.KOJI_PROJECT_ID) \/ Falsy(env.KOJI_PROJECT_TOKEN)
            THEN [ok |-> FALSE, error |-> ConfigurationError]
            ELSE [ok |-> TRUE,
                  object |-> [config |-> [projectId |-> env.KOJI_PROJECT_ID,
                                          projectToken |-> env.KOJI_PROJECT_TOKEN],
                              mode |-> mode,
                              transactionQueue |-> <<>>]]

----------------------------------------------------------------------------
(* The request each method builds *)

JsonPost(c, path, body) ==
    [uri |-> buildUri(path), method |-> "POST", headers |-> headers(c), json |-> TRUE, body |-> body]

AuthPost(c, path, body) ==
    [uri |-> buildUri(path), method |-> "POST", headers |-> authHeaders(c), json |-> TRUE, body |-> body]

MutationPath(op) ==
    CASE op = "set" -> "/v1/store/set"
      [] op = "update" -> "/v1/store/update"
      [] op = "arrayPush" -> "/v1/store/update/push"
      [] op = "arrayRemove" -> "/v1/store/update/remove"
      [] op = "delete" -> "/v1/store/delete"

DocumentRequest(c, op, collection, documentName, documentBody) ==
    JsonPost(c, MutationPath(op),
             [collection |-> collection, documentName |-> documentName, documentBody |-> documentBody])

DeleteRequest(c, collection, documentName) ==
    JsonPost(c, MutationPath("delete"), [collection |-> collection, documentName |-> documentName])

UploadRequest(c, path, filename, contentType) ==
    [uri |-> buildUri("/v1/objectStore/upload"), method |-> "POST", headers |-> authHeaders(c),
     formData |-> [file |-> [value |-> path,
                             options |-> [filename |-> filename, contentType |-> contentType]]]]

\* Variant of commitTransaction's map: the operations are listed last first.
CommitRequestReversed(c) ==
    LET q == clients[c].transactionQueue
        requestBody == [i \in 1..Len(q) |->
                           [uri |-> q[Len(q) + 1 - i].uri, body |-> q[Len(q) + 1 - i].body]]
    IN [uri |-> buildUri("/v1/store/transaction"), method |-> "POST", headers |-> authHeaders(c),
        json |-> TRUE, body |-> [operations |-> requestBody]]

CommitRequest(c) ==
    LET q == clients[c].transactionQueue
        requestBody == [i \in 1..Len(q) |-> [uri |-> q[i].uri, body |-> q[i].body]]
    IN [uri |-> buildUri("/v1/store/transaction"), method |-> "POST", headers |-> authHeaders(c),
        json |-> TRUE, body |-> [operations |-> requestBody]]

----------------------------------------------------------------------------
(* Steps shared by the methods *)

Tickets == {k.ticket : k \in calls}
FreshTicket == CHOOSE t \in 1..(Cardinality(calls) + 1) : t \notin Tickets

\* The bag of the requests of sent, each tagged with the invocation and the
\* instance that sent it.
Sending(t, c, sent) ==
    LET tagged == [i \in 1..Len(sent) |-> [ticket |-> t, by |-> c, options |-> sent[i]]]
        reqs == {tagged[i] : i \in 1..Len(sent)}
    IN [x \in reqs |-> Cardinality({i \in 1..Len(sent) : tagged[i] = x})]

\* One logical thread of control: the application awaits each call and takes
\* its result before it makes the next.
Idle == calls = {} /\ last = Nothing

\* The async function throws before its first await: the promise it returns
\* is rejected at once and nothing else happens.
Reject(c, op, error) ==
    /\ last' = [client |-> c, op |-> op, input |-> Undefined, outcome |-> NoOutcome,
                result |-> Throw(error)]
    /\ UNCHANGED <<env, clients, network, calls, invoked, committed, store>>

RECURSIVE QueuedFrom(_)
QueuedFrom(i) ==
    IF i > Len(clients) THEN 0 ELSE Len(clients[i].transactionQueue) + QueuedFrom(i + 1)

\* The async function reaches its await with r, what request()/rp() did.
Await(c, op, r) ==
    /\ Len(r.queue) > Len(clients[c].transactionQueue) => QueuedFrom(1) < MaxQueued
    /\ clients' = [clients EXCEPT ![c].transactionQueue = r.queue]
    /\ network' = network (+) Sending(FreshTicket, c, r.sent)
    /\ calls' = calls \cup {[ticket |-> FreshTicket, client |-> c, op |-> op, awaiting |-> r.returns]}
    /\ UNCHANGED <<env, last, store>>

----------------------------------------------------------------------------
(* The methods, up to their first await *)

\* new DatabaseAdapter(customConfig, mode) called by the application.
constructor(customConfig, mode) ==
    LET r == NewDatabaseAdapter(customConfig, mode) IN
    /\ IF r.ok
         THEN /\ clients' = Append(clients, r.object)
              /\ invoked' = Append(invoked, <<>>)
              /\ committed' = Append(committed, FALSE)
              /\ last' = [client |-> 0, op |-> "constructor", input |-> customConfig, outcome |-> NoOutcome,
                          result |-> Return([ref |-> Len(clients) + 1])]
         ELSE /\ last' = [client |-> 0, op |-> "constructor", input |-> customConfig, outcome |-> NoOutcome,
                          result |-> Throw(r.error)]
              /\ UNCHANGED <<clients, invoked, committed>>
    /\ UNCHANGED <<env, network, calls, store>>

get(c, collection, documentName) ==
    IF clients[c].mode = TRANSACTION
        THEN Reject(c, "get", UnavailableInTransaction)
        ELSE /\ Await(c, "get", request(c, JsonPost(c, "/v1/store/get",
                        [collection |-> collection, documentName |-> documentName])))
             /\ UNCHANGED <<invoked, committed>>

getCollections(c) ==
    IF clients[c].mode = TRANSACTION
        THEN Reject(c, "getCollections", UnavailableInTransaction)
        ELSE /\ Await(c, "getCollections", request(c, JsonPost(c, "/v1/store/getCollections", <<>>)))
             /\ UNCHANGED <<invoked, committed>>

search(c, collection, queryKey, queryValue) ==
    IF clients[c].mode = TRANSACTION
        THEN Reject(c, "search", UnavailableInTransaction)
        ELSE /\ Await(c, "search", request(c, JsonPost(c, "/v1/store/search",
                        [collection |-> collection, queryKey |-> queryKey, queryValue |-> queryValue])))
             /\ UNCHANGED <<invoked, committed>>

getWhere(c, collection, predicateKey, predicateOperation, predicateValue) ==
    IF clients[c].mode = TRANSACTION
        THEN Reject(c, "getWhere", UnavailableInTransaction)
        ELSE /\ Await(c, "getWhere", request(c, JsonPost(c, "/v1/store/get",
                        [collection |-> collection,
                         predicate |-> [key |-> predicateKey, operation |-> predicateOperation,
                                        value |-> predicateValue]])))
             /\ UNCHANGED <<invoked, committed>>

getAll(c, collection, documentNames) ==
    IF clients[c].mode = TRANSACTION
        THEN Reject(c, "getAll", UnavailableInTransaction)
        ELSE /\ Await(c, "getAll", request(c, JsonPost(c, "/v1/store/getAll",
                        [collection |-> collection, documentNames |-> documentNames])))
             /\ UNCHANGED <<invoked, committed>>

getAllWhere(c, collection, predicateKey, predicateOperation, predicateValues) ==
    IF clients[c].mode = TRANSACTION
        THEN Reject(c, "getAllWhere", UnavailableInTransaction)
        ELSE /\ Await(c, "getAllWhere", request(c, JsonPost(c, "/v1/store/getAllWhere",
                        [collection |-> collection, predicateKey |-> predicateKey,
                         predicateOperation |-> predicateOperation,
                         predicateValues |-> predicateValues])))
             /\ UNCHANGED <<invoked, committed>>

\* The history of the mutations invoked on transaction instances, with one more.
Recorded(c, mutation) ==
    IF clients[c].mode = TRANSACTION
        THEN [invoked EXCEPT ![c] = Append(@, mutation)]
        ELSE invoked

\* The part set, update, arrayPush and arrayRemove share.
DocumentMutation(c, op, collection, documentName, documentBody) ==
    /\ Await(c, op, request(c, DocumentRequest(c, op, collection, documentName, documentBody)))
    /\ invoked' = Recorded(c, [op |-> op, collection |-> collection,
                               documentName |-> documentName, documentBody |-> documentBody])
    /\ UNCHANGED committed

set(c, collection, documentName, documentBody) ==
    DocumentMutation(c, "set", collection, documentName, documentBody)

update(c, collection, documentName, documentBody) ==
    DocumentMutation(c, "update", collection, documentName, documentBody)

arrayPush(c, collection, documentName, documentBody) ==
    DocumentMutation(c, "arrayPush", collection, documentName, documentBody)

arrayRemove(c, collection, documentName, documentBody) ==
    DocumentMutation(c, "arrayRemove", collection, documentName, documentBody)

delete(c, collection, documentName) ==
    /\ Await(c, "delete", request(c, DeleteRequest(c, collection, documentName)))
    /\ invoked' = Recorded(c, [op |-> "delete", collection |-> collection,
                               documentName |-> documentName])
    /\ UNCHANGED committed

\* Variant of uploadFile: the mode check is missing.
uploadFileUnguarded(c, path, filename, contentType) ==
    /\ Await(c, "uploadFile", request(c, UploadRequest(c, path, filename, contentType)))
    /\ UNCHANGED <<invoked, committed>>

uploadFile(c, path, filename, contentType) ==
    IF clients[c].mode = TRANSACTION
        THEN Reject(c, "uploadFile", UnavailableInTransaction)
        ELSE /\ Await(c, "uploadFile", request(c, UploadRequest(c, path, filename, contentType)))
             /\ UNCHANGED <<invoked, committed>>

generateSignedUploadRequest(c, fileName) ==
    IF clients[c].mode = TRANSACTION
        THEN Reject(c, "generateSignedUploadRequest", UnavailableInTransaction)
        ELSE /\ Await(c, "generateSignedUploadRequest",
                      request(c, AuthPost(c, "/v1/objectStore/generateSignedRequest",
                                          [fileName |-> fileName])))
             /\ UNCHANGED <<invoked, committed>>

transcodeAsset(c, path, transcodeType) ==
    IF clients[c].mode = TRANSACTION
        THEN Reject(c, "transcodeAsset", UnavailableInTransaction)
        ELSE /\ Await(c, "transcodeAsset",
                      request(c, AuthPost(c, "/v1/objectStore/transcode",
                                          [path |-> path, type |-> transcodeType])))
             /\ UNCHANGED <<invoked, committed>>

getTranscodeStatus(c, callbackToken) ==
    IF clients[c].mode = TRANSACTION
        THEN Reject(c, "getTranscodeStatus", UnavailableInTransaction)
        ELSE /\ Await(c, "getTranscodeStatus",
                      request(c, AuthPost(c, "/v1/objectStore/transcode/status",
                                          [callbackToken |-> callbackToken])))
             /\ UNCHANGED <<invoked, committed>>

\* Variant of beginTransaction: the new instance is handed the queue of this one.
beginTransactionSharesQueue(c) ==
    LET r == NewDatabaseAdapter(clients[c].config, TRANSACTION) IN
    /\ r.ok
    /\ clients' = Append(clients, [r.object EXCEPT !.transactionQueue = clients[c].transactionQueue])
    /\ invoked' = Append(invoked, <<>>)
    /\ committed' = Append(committed, FALSE)
    /\ last' = [client |-> c, op |-> "beginTransaction", input |-> Undefined, outcome |-> NoOutcome,
                result |-> Return([ref |-> Len(clients) + 1])]
    /\ UNCHANGED <<env, network, calls, store>>

\* Variant of beginTransaction: the new instance gets the mode of this one.
beginTransactionKeepsMode(c) ==
    LET r == NewDatabaseAdapter(clients[c].config, clients[c].mode) IN
    /\ r.ok
    /\ clients' = Append(clients, r.object)
    /\ invoked' = Append(invoked, <<>>)
    /\ committed' = Append(committed, FALSE)
    /\ last' = [client |-> c, op |-> "beginTransaction", input |-> Undefined, outcome |-> NoOutcome,
                result |-> Return([ref |-> Len(clients) + 1])]
    /\ UNCHANGED <<env, network, calls, store>>

beginTransaction(c) ==
    LET r == NewDatabaseAdapter(clients[c].config, TRANSACTION) IN
    /\ IF r.ok
         THEN /\ clients' = Append(clients, r.object)
              /\ invoked' = Append(invoked, <<>>)
              /\ committed' = Append(committed, FALSE)
              /\ last' = [client |-> c, op |-> "beginTransaction", input |-> Undefined, outcome |-> NoOutcome,
                          result |-> Return([ref |-> Len(clients) + 1])]
         ELSE /\ last' = [client |-> c, op |-> "beginTransaction", input |-> Undefined, outcome |-> NoOutcome,
                          result |-> Throw(r.error)]
              /\ UNCHANGED <<clients, invoked, committed>>
    /\ UNCHANGED <<env, network, calls, store>>

\* Variant of commitTransaction: the instance goes back to immediate mode.
commitTransactionLeavesTransaction(c) ==
    IF clients[c].mode # TRANSACTION
        THEN Reject(c, "commitTransaction", NotInTransaction)
        ELSE /\ clients' = [clients EXCEPT ![c].mode = IMMEDIATE]
             /\ network' = network (+) Sending(FreshTicket, c, <<CommitRequest(c)>>)
             /\ calls' = calls \cup {[ticket |-> FreshTicket, client |-> c,
                                      op |-> "commitTransaction", awaiting |-> "promise"]}
             /\ UNCHANGED <<env, last, store, invoked, committed>>

\* Variant of commitTransaction: the mode check is missing.
commitTransactionUnguarded(c) ==
    /\ Await(c, "commitTransaction", rp(c, CommitRequest(c)))
    /\ UNCHANGED <<invoked, committed>>

\* Variant of commitTransaction: the queue is emptied once its request is built.
commitTransactionClearsQueue(c) ==
    IF clients[c].mode # TRANSACTION
        THEN Reject(c, "commitTransaction", NotInTransaction)
        ELSE /\ Await(c, "commitTransaction",
                      [queue |-> <<>>, sent |-> <<CommitRequest(c)>>, returns |-> "promise"])
             /\ UNCHANGED <<invoked, committed>>

commitTransaction(c) ==
    IF clients[c].mode # TRANSACTION
        THEN Reject(c, "commitTransaction", NotInTransaction)
        ELSE /\ Await(c, "commitTransaction", rp(c, CommitRequest(c)))
             /\ UNCHANGED <<invoked, committed>>

----------------------------------------------------------------------------
(* The methods, after their await *)

\* Variant of get: the whole response is returned, not its document.
getThenReturnsResponse(outcome) ==
    IF outcome.ok /\ outcome.response # Undefined
        THEN Return(Json(outcome.response))
        ELSE IF ~outcome.ok /\ HasStatusCode(outcome.err, 404)
            THEN Throw(DocumentNotFound)
            ELSE Throw(ServiceError)

\* Variant of get's catch: a 404 is swallowed, the call returns undefined.
getThenSwallowsNotFound(outcome) ==
    IF outcome.ok /\ outcome.response # Undefined
        THEN Return(Json(outcome.response.document))
        ELSE IF ~outcome.ok /\ HasStatusCode(outcome.err, 404)
            THEN Return(Undefined)
            ELSE Throw(ServiceError)

\* Variant of get's catch: every failure is a service error.
getThenServiceErrorOnly(outcome) ==
    IF outcome.ok /\ outcome.response # Undefined
        THEN Return(Json(outcome.response.document))
        ELSE Throw(ServiceError)

getThen(outcome) ==
    IF outcome.ok /\ outcome.response # Undefined
        THEN Return(Json(outcome.response.document))
        ELSE IF ~outcome.ok /\ HasStatusCode(outcome.err, 404)
            THEN Throw(DocumentNotFound)
            ELSE Throw(ServiceError)

getCollectionsThen(outcome) ==
    IF outcome.ok /\ outcome.response # Undefined
        THEN Return(Json(outcome.response.collections))
        ELSE Throw(ServiceError)

\* Variant of the catch of search, getAll and getAllWhere: every failure is a service error.
resultsThenServiceErrorOnly(outcome) ==
    IF outcome.ok /\ outcome.response # Undefined
        THEN Return(Json(outcome.response.results))
        ELSE Throw(ServiceError)

\* search, getAll and getAllWhere: return response.results
resultsThen(outcome) ==
    IF outcome.ok /\ outcome.response # Undefined
        THEN Return(Json(outcome.response.results))
        ELSE IF ~outcome.ok /\ HasStatusCode(outcome.err, 404)
            THEN Throw(DocumentNotFound)
            ELSE Throw(ServiceError)

\* Variant of the mutations: the return for transaction mode is missing.
mutationThenAlwaysBoolean(c, outcome) ==
    IF ~outcome.ok THEN Return(JsFalse) ELSE Return(JsTrue)

\* Variant of the mutations' catch: the failure is thrown as a service error.
mutationThenRethrows(c, outcome) ==
    IF ~outcome.ok
        THEN Throw(ServiceError)
        ELSE IF clients[c].mode = TRANSACTION
            THEN Return(Undefined)
            ELSE Return(JsTrue)

\* set, update, arrayPush, arrayRemove and delete
mutationThen(c, outcome) ==
    IF ~outcome.ok
        THEN Return(JsFalse)
        ELSE IF clients[c].mode = TRANSACTION
            THEN Return(Undefined)
            ELSE Return(JsTrue)

uploadFileThen(outcome) ==
    IF outcome.ok /\ outcome.response # Undefined /\ outcome.response.text = "valid"
        THEN Return(Json(outcome.response.parsed.url))
        ELSE Throw(ServiceError)

generateSignedUploadRequestThen(outcome) ==
    IF outcome.ok /\ outcome.response # Undefined
        THEN Return(Json([url |-> outcome.response.url,
                          signedRequest |-> outcome.response.signedRequest]))
        ELSE Throw(ServiceError)

transcodeAssetThen(outcome) ==
    IF outcome.ok /\ outcome.response # Undefined
        THEN Return(Json([url |-> outcome.response.url,
                          callbackToken |-> outcome.response.callbackTokens[1]]))
        ELSE Throw(ServiceError)

getTranscodeStatusThen(outcome) ==
    IF outcome.ok /\ outcome.response # Undefined
        THEN Return(Json([isFinished |-> outcome.response.isResolved]))
        ELSE Throw(ServiceError)

\* Variant of commitTransaction: the remote call is wrapped in the try and
\* catch of the mutations, so a failure is returned as false.
commitTransactionThenReturnsFalse(outcome) ==
    IF outcome.ok THEN Return(Undefined) ELSE Return(JsFalse)

commitTransactionThen(outcome) ==
    IF outcome.ok THEN Return(Undefined) ELSE Throw(outcome.err)

Then(k, outcome) ==
    CASE k.op \in {"get", "getWhere"} -> getThen(outcome)
      [] k.op = "getCollections" -> getCollectionsThen(outcome)
      [] k.op \in {"search", "getAll", "getAllWhere"} -> resultsThen(outcome)
      [] k.op \in {"set", "update", "arrayPush", "arrayRemove", "delete"} -> mutationThen(k.client, outcome)
      [] k.op = "uploadFile" -> uploadFileThen(outcome)
      [] k.op = "generateSignedUploadRequest" -> generateSignedUploadRequestThen(outcome)
      [] k.op = "transcodeAsset" -> transcodeAssetThen(outcome)
      [] k.op = "getTranscodeStatus" -> getTranscodeStatusThen(outcome)
      [] k.op = "commitTransaction" -> commitTransactionThen(outcome)

Settle(k, outcome) ==
    /\ calls' = calls \ {k}
    /\ last' = [client |-> k.client, op |-> k.op, input |-> Undefined, outcome |-> outcome,
                result |-> Then(k, outcome)]
    /\ committed' = IF k.op = "commitTransaction"
                        THEN [committed EXCEPT ![k.client] = TRUE]
                        ELSE committed
    /\ UNCHANGED <<env, clients, invoked>>

\* The remote service answers a request; the invocation awaiting it goes on.
Respond(k, outcome) ==
    /\ k.awaiting = "promise"
    /\ \E req \in BagToSet(network) :
          /\ req.ticket = k.ticket
          /\ network' = network (-) SetToBag({req})
    /\ Settle(k, outcome)
    /\ UNCHANGED store

\* An invocation that awaited undefined (its request was queued) goes on.
Continue(k) ==
    /\ k.awaiting = "undefined"
    /\ Settle(k, Resolved(Undefined))
    /\ UNCHANGED <<network, store>>

----------------------------------------------------------------------------
(* A remote store that applies the requests it is sent faithfully *)

\* The documents the application writes: the test document and the update of it.
StoredBodies ==
    { [stringKey |-> "testValue", numericKey |-> 100],
      [stringKey |-> "newValue"] }

StorePaths ==
    {"/v1/store/get", "/v1/store/set", "/v1/store/update", "/v1/store/delete",
     "/v1/store/transaction"}

\* The endpoint a request addresses.
Route(uri) ==
    IF \E path \in StorePaths : uri = buildUri(path)
        THEN CHOOSE path \in StorePaths : uri = buildUri(path)
        ELSE "unknown"

\* The store after one write, and whether the write applied.  set replaces
\* the document, update merges the fields given into an existing document,
\* delete removes the document.
ApplyOne(st, uri, body) ==
    LET key == <<body.collection, body.documentName>> IN
    CASE Route(uri) = "/v1/store/set" ->
            [ok |-> TRUE, store |-> [st EXCEPT ![key] = body.documentBody]]
      [] Route(uri) = "/v1/store/update" ->
            IF st[key] = Absent
                THEN [ok |-> FALSE, store |-> st]
                ELSE [ok |-> TRUE, store |-> [st EXCEPT ![key] = body.documentBody @@ @]]
      [] Route(uri) = "/v1/store/delete" ->
            [ok |-> TRUE, store |-> [st EXCEPT ![key] = Absent]]
      [] OTHER -> [ok |-> FALSE, store |-> st]

\* The operations of a combined commit, applied one after the other in list order.
RECURSIVE ApplyAll(_, _, _)
ApplyAll(st, operations, i) ==
    IF i > Len(operations)
        THEN [ok |-> TRUE, store |-> st]
        ELSE LET one == ApplyOne(st, operations[i].uri, operations[i].body) IN
             IF one.ok THEN ApplyAll(one.store, operations, i + 1) ELSE one

\* What the store answers to a request, and the store after it.  A document
\* is returned with its name injected as _id; a combined commit applies all
\* of its operations or none.
Serve(options) ==
    CASE Route(options.uri) = "/v1/store/get" ->
            LET key == <<options.body.collection, options.body.documentName>> IN
            IF store[key] = Absent
                THEN [outcome |-> Rejected([name |-> "StatusCodeError", statusCode |-> 404]),
                      store |-> store]
                ELSE [outcome |-> Resolved([document |->
                                      [_id |-> options.body.documentName] @@ store[key]]),
                      store |-> store]
      [] Route(options.uri) = "/v1/store/transaction" ->
            LET all == ApplyAll(store, options.body.operations, 1) IN
            IF all.ok
                THEN [outcome |-> Resolved([status |-> "2xx"]), store |-> all.store]
                ELSE [outcome |-> Rejected([name |-> "StatusCodeError", statusCode |-> 500]),
                      store |-> store]
      [] OTHER ->
            LET one == ApplyOne(store, options.uri, options.body) IN
            IF one.ok
                THEN [outcome |-> Resolved([status |-> "2xx"]), store |-> one.store]
                ELSE [outcome |-> Rejected([name |-> "StatusCodeError", statusCode |-> 404]),
                      store |-> store]

\* The store serves the request of the invocation k; the invocation goes on.
Deliver(k) ==
    /\ k.awaiting = "promise"
    /\ \E req \in BagToSet(network) :
          /\ req.ticket = k.ticket
          /\ network' = network (-) SetToBag({req})
          /\ store' = Serve(req.options).store
          /\ Settle(k, Serve(req.options).outcome)

----------------------------------------------------------------------------
(* The system *)

Init ==
    /\ env \in Environments
    /\ clients = <<>>
    /\ network = EmptyBag
    /\ calls = {}
    /\ last = Nothing
    /\ invoked = <<>>
    /\ committed = <<>>
    /\ store = EmptyStore
    /\ app = [call |-> NoCall,
              docs |-> [key \in DOMAIN EmptyStore |-> [doc |-> Absent, by |-> "none", was |-> Absent]]]

\* The caller has taken the result of the call that settled and goes on.
Proceed ==
    /\ calls = {}
    /\ last # Nothing
    /\ last' = Nothing
    /\ UNCHANGED <<env, clients, network, calls, invoked, committed, store>>

Next ==
    \/ \E customConfig \in CustomConfigs \cup {Undefined} :
          Idle /\ Len(clients) < MaxClients /\ constructor(customConfig, IMMEDIATE) /\ UNCHANGED app
    \/ \E c \in ClientIds, collection \in Collections, documentName \in DocumentNames :
          Idle /\ get(c, collection, documentName) /\ UNCHANGED app
    \/ \E c \in ClientIds : Idle /\ getCollections(c) /\ UNCHANGED app
    \/ \E c \in ClientIds, collection \in Collections : Idle /\ search(c, collection, "k", "v") /\ UNCHANGED app
    \/ \E c \in ClientIds, collection \in Collections : Idle /\ getWhere(c, collection, "k", "==", "v") /\ UNCHANGED app
    \/ \E c \in ClientIds, collection \in Collections, documentName \in DocumentNames :
          Idle /\ getAll(c, collection, <<documentName>>) /\ UNCHANGED app
    \/ \E c \in ClientIds, collection \in Collections :
          Idle /\ getAllWhere(c, collection, "k", "=", <<"v">>) /\ UNCHANGED app
    \/ \E c \in ClientIds, collection \in Collections, documentName \in DocumentNames,
          documentBody \in DocumentBodies :
          Idle /\ set(c, collection, documentName, documentBody) /\ UNCHANGED app
    \/ \E c \in ClientIds, collection \in Collections, documentName \in DocumentNames,
          documentBody \in DocumentBodies :
          Idle /\ update(c, collection, documentName, documentBody) /\ UNCHANGED app
    \/ \E c \in ClientIds, collection \in Collections, documentName \in DocumentNames,
          documentBody \in DocumentBodies :
          Idle /\ arrayPush(c, collection, documentName, documentBody) /\ UNCHANGED app
    \/ \E c \in ClientIds, collection \in Collections, documentName \in DocumentNames,
          documentBody \in DocumentBodies :
          Idle /\ arrayRemove(c, collection, documentName, documentBody) /\ UNCHANGED app
    \/ \E c \in ClientIds, collection \in Collections, documentName \in DocumentNames :
          Idle /\ delete(c, collection, documentName) /\ UNCHANGED app
    \/ \E c \in ClientIds : Idle /\ uploadFile(c, "f", "f.png", "image/png") /\ UNCHANGED app
    \/ \E c \in ClientIds : Idle /\ generateSignedUploadRequest(c, "f") /\ UNCHANGED app
    \/ \E c \in ClientIds : Idle /\ transcodeAsset(c, "f", "video+hls") /\ UNCHANGED app
    \/ \E c \in ClientIds : Idle /\ getTranscodeStatus(c, "k") /\ UNCHANGED app
    \/ \E c \in ClientIds : Idle /\ Len(clients) < MaxClients /\ beginTransaction(c) /\ UNCHANGED app
    \/ \E c \in ClientIds : Idle /\ commitTransaction(c) /\ UNCHANGED app
    \/ \E k \in calls : \E outcome \in Outcomes(k.op) : Respond(k, outcome) /\ UNCHANGED app
    \/ \E k \in calls : Continue(k) /\ UNCHANGED app
    \/ Proceed /\ UNCHANGED app

Spec == Init /\ [][Next]_vars

----------------------------------------------------------------------------
(* The application of the tests, against the faithful store: it notes each
   call it makes and, from the result, what the document must now be *)

\* The application calls op on the instance c for the document key.
Calling(c, op, key, body) ==
    app' = [app EXCEPT !.call = [client |-> c, op |-> op, key |-> key, body |-> body]]

\* The document a record of the application holds, or Unknown.
DocOf(known) == IF known = Unknown THEN Unknown ELSE known.doc

\* What a write that took effect makes of a document known as before: the
\* document now, the call it is known by and the document it was.
ExpectedOne(op, body, before) ==
    CASE op = "set" -> [doc |-> body, by |-> "set", was |-> DocOf(before)]
      [] op = "delete" -> [doc |-> Absent, by |-> "delete", was |-> DocOf(before)]
      [] op = "update" ->
            IF before # Unknown /\ before.doc # Absent
                THEN [doc |-> body @@ before.doc, by |-> "update", was |-> DocOf(before)]
                ELSE Unknown
      [] OTHER -> Unknown

\* What the mutations ms of a commit that took effect make of the documents.
RECURSIVE ExpectedAll(_, _, _)
ExpectedAll(docs, ms, i) ==
    IF i > Len(ms)
        THEN docs
        ELSE LET key == <<ms[i].collection, ms[i].documentName>>
                 body == IF ms[i].op = "delete" THEN Undefined ELSE ms[i].documentBody
                 one == ExpectedOne(ms[i].op, body, docs[key])
             IN ExpectedAll([docs EXCEPT ![key] =
                                IF one = Unknown THEN Unknown ELSE [one EXCEPT !.by = "commit"]],
                            ms, i + 1)

\* The documents as the application knows them once the invocation k has
\* settled with result.
Learned(k, result) ==
    IF k.op \in {"set", "update", "delete"} /\ clients[k.client].mode = IMMEDIATE
        THEN [app.docs EXCEPT ![app.call.key] =
                 IF result = Return(JsTrue)
                     THEN ExpectedOne(k.op, app.call.body, @)
                     ELSE Unknown]
        ELSE IF k.op = "commitTransaction"
            THEN IF result.kind = "return"
                     THEN ExpectedAll(app.docs, invoked[k.client], 1)
                     ELSE [key \in DOMAIN app.docs |-> Unknown]
            ELSE app.docs

Learning(k) == app' = [app EXCEPT !.docs = Learned(k, last'.result)]

\* A properly configured environment.
InitStore ==
    /\ Init
    /\ ~Falsy(env.KOJI_PROJECT_ID)
    /\ ~Falsy(env.KOJI_PROJECT_TOKEN)

NextStore ==
    \/ Idle /\ Len(clients) < MaxClients /\ constructor(Undefined, IMMEDIATE) /\ UNCHANGED app
    \/ \E c \in ClientIds : Idle /\ Len(clients) < MaxClients /\ beginTransaction(c) /\ UNCHANGED app
    \/ \E c \in ClientIds, key \in DOMAIN store :
          Idle /\ get(c, key[1], key[2]) /\ Calling(c, "get", key, Undefined)
    \/ \E c \in ClientIds, key \in DOMAIN store, documentBody \in StoredBodies :
          Idle /\ set(c, key[1], key[2], documentBody) /\ Calling(c, "set", key, documentBody)
    \/ \E c \in ClientIds, key \in DOMAIN store, documentBody \in StoredBodies :
          Idle /\ update(c, key[1], key[2], documentBody) /\ Calling(c, "update", key, documentBody)
    \/ \E c \in ClientIds, key \in DOMAIN store :
          Idle /\ delete(c, key[1], key[2]) /\ Calling(c, "delete", key, Undefined)
    \/ \E c \in ClientIds :
          Idle /\ commitTransaction(c) /\ Calling(c, "commitTransaction", Undefined, Undefined)
    \/ \E k \in calls : Deliver(k) /\ Learning(k)
    \/ \E k \in calls : Continue(k) /\ UNCHANGED app
    \/ Proceed /\ app' = [app EXCEPT !.call = NoCall]

SpecStore == InitStore /\ [][NextStore]_vars

----------------------------------------------------------------------------
(* What the claims speak of, stated apart from the model's own helpers *)

ReadOps == {"get", "getCollections", "search", "getWhere", "getAll", "getAllWhere"}
ObjectStoreOps == {"uploadFile", "generateSignedUploadRequest", "transcodeAsset", "getTranscodeStatus"}
MutationOps == {"set", "update", "arrayPush", "arrayRemove", "delete"}

BaseUrls == {"http://localhost:3129", "https://database.api.gokoji.com"}

\* uri addresses the endpoint path of the remote API.
IsEndpoint(uri, path) == \E base \in BaseUrls : uri = base \o path

EndpointPath(op) ==
    CASE op = "set" -> "/v1/store/set"
      [] op = "update" -> "/v1/store/update"
      [] op = "arrayPush" -> "/v1/store/update/push"
      [] op = "arrayRemove" -> "/v1/store/update/remove"
      [] op = "delete" -> "/v1/store/delete"

\* entry, an element of a commit's operations list, is the mutation m.
IsOperationOf(entry, m) ==
    /\ DOMAIN entry = {"uri", "body"}
    /\ IsEndpoint(entry.uri, EndpointPath(m.op))
    /\ entry.body = IF m.op = "delete"
                      THEN [collection |-> m.collection, documentName |-> m.documentName]
                      ELSE [collection |-> m.collection, documentName |-> m.documentName,
                            documentBody |-> m.documentBody]

\* The requests in flight that the invocation k sent.
RequestsOf(k) == {r \in BagToSet(network) : r.ticket = k.ticket}

\* The invocation k has sent exactly one request, a commit of the mutations ms.
SentOneCommitOf(k, ms) ==
    /\ BagCardinality(network) = 1
    /\ \E r \in RequestsOf(k) :
          /\ r.by = k.client
          /\ IsEndpoint(r.options.uri, "/v1/store/transaction")
          /\ DOMAIN r.options.body = {"operations"}
          /\ Len(r.options.body.operations) = Len(ms)
          /\ \A i \in 1..Len(ms) : IsOperationOf(r.options.body.operations[i], ms[i])

IsCommitRequest(r) == IsEndpoint(r.options.uri, "/v1/store/transaction")

----------------------------------------------------------------------------
(* C1: while the first commitTransaction() of a transaction instance awaits
   its answer, exactly one request is in flight; it goes to
   /v1/store/transaction and its operations list is, entry by entry and in
   order, the list of the mutations invoked on that instance. *)
C1_CommitCarriesQueueInOrder ==
    \A k \in calls :
        (k.op = "commitTransaction" /\ ~committed[k.client])
            => SentOneCommitOf(k, invoked[k.client])

\* A commit of two different mutations is awaiting its answer.
C1_Witness ==
    \E k \in calls :
        /\ k.op = "commitTransaction"
        /\ ~committed[k.client]
        /\ Len(invoked[k.client]) = 2
        /\ invoked[k.client][1].op = "set"
        /\ invoked[k.client][2].op = "update"
        /\ BagCardinality(network) = 1

(* C2: every request in flight that a transaction-mode instance sent is a
   commit request sent by commitTransaction; its set, update, arrayPush,
   arrayRemove and delete send nothing. *)
C2_TransactionSendsOnlyCommit ==
    \A r \in BagToSet(network) :
        clients[r.by].mode = TRANSACTION
            => /\ IsCommitRequest(r)
               /\ \E k \in calls : k.ticket = r.ticket /\ k.op = "commitTransaction"

\* A mutation was invoked on a transaction instance and nothing is in flight.
C2_Witness ==
    \E k \in calls :
        /\ k.op \in MutationOps
        /\ clients[k.client].mode = TRANSACTION
        /\ clients[k.client].transactionQueue # <<>>
        /\ network = EmptyBag

(* C3: a read or object-store operation invoked on a transaction-mode
   instance is never suspended at a request: it fails at once with 'not
   available inside transaction', and the step sends nothing and leaves the
   queue of the instance as it was. *)
C3_UnavailableInTransaction ==
    [][\A c \in ClientIds :
          clients[c].mode = TRANSACTION
              => /\ \A k \in calls' : ~(k.client = c /\ k.op \in ReadOps \cup ObjectStoreOps)
                 /\ (last' # last /\ last'.client = c /\ last'.op \in ReadOps \cup ObjectStoreOps)
                        => /\ last'.result = Throw(Error("not available inside transaction"))
                           /\ network' = network
                           /\ clients'[c].transactionQueue = clients[c].transactionQueue]_vars

\* An object-store operation failed on a transaction instance with a queued mutation.
C3_Witness ==
    /\ last.op = "uploadFile"
    /\ last.client \in ClientIds
    /\ clients[last.client].mode = TRANSACTION
    /\ clients[last.client].transactionQueue # <<>>
    /\ last.result = Throw(Error("not available inside transaction"))

(* C4: commitTransaction() on an immediate-mode instance fails with the
   not-in-transaction error; it is never suspended at a request, and no
   commit request of an immediate-mode instance is ever in flight. *)
C4_CommitOutsideTransactionFails ==
    /\ \A k \in calls : k.op = "commitTransaction" => clients[k.client].mode = TRANSACTION
    /\ \A r \in BagToSet(network) : clients[r.by].mode = IMMEDIATE => ~IsCommitRequest(r)
    /\ (last.op = "commitTransaction" /\ clients[last.client].mode = IMMEDIATE)
          => (last.result = Throw(Error("not in a trasaction")) /\ network = EmptyBag)

C4_Witness ==
    /\ last.op = "commitTransaction"
    /\ clients[last.client].mode = IMMEDIATE
    /\ last.result = Throw(Error("not in a trasaction"))

(* C5: on an immediate-mode instance set, update, arrayPush, arrayRemove and
   delete return true when the remote call succeeded and false when it
   failed, whatever the failure; they never throw. *)
C5_MutationReturnsBoolean ==
    (last.op \in MutationOps /\ clients[last.client].mode = IMMEDIATE)
        => /\ last.outcome # NoOutcome
           /\ last.result = IF last.outcome.ok THEN Return([bool |-> TRUE])
                                               ELSE Return([bool |-> FALSE])

\* A delete on an immediate instance that the remote service refused returned false.
C5_Witness ==
    /\ last.op = "delete"
    /\ clients[last.client].mode = IMMEDIATE
    /\ last.outcome = Rejected([name |-> "StatusCodeError", statusCode |-> 500])
    /\ last.result = Return([bool |-> FALSE])

(* C6, as claimed: an instance sends at most one commit request in its life:
   no commit request is in flight from an instance one of whose commits has
   already settled. *)
C6_Original ==
    \A r \in BagToSet(network) : IsCommitRequest(r) => ~committed[r.by]

(* C6, amended: the code does not guard against a second commit.  A
   commitTransaction() invoked on a transaction instance after an earlier
   commit of it has settled sends one more request to /v1/store/transaction,
   carrying again, in order, all the mutations invoked on the instance. *)
C6_RecommitSendsAgain ==
    \A k \in calls :
        (k.op = "commitTransaction" /\ committed[k.client])
            => SentOneCommitOf(k, invoked[k.client])

\* A second commit of an instance with a queued mutation is awaiting its answer.
C6_Witness ==
    \E k \in calls :
        /\ k.op = "commitTransaction"
        /\ committed[k.client]
        /\ Len(invoked[k.client]) >= 1
        /\ RequestsOf(k) # {}

\* The remote call failed with status 404.
Is404(outcome) == ~outcome.ok /\ outcome.err = [name |-> "StatusCodeError", statusCode |-> 404]

\* How a read translates a failed remote call.
Translated(outcome) ==
    IF Is404(outcome) THEN Throw(Error("Document not found")) ELSE Throw(Error("Service error"))

(* C7: on an immediate-mode instance get returns the document of the response
   when the remote call succeeded, fails with 'Document not found' exactly
   when the remote call failed with status 404 and fails with 'Service error'
   on every other failure. *)
C7_GetTranslatesErrors ==
    (last.op = "get" /\ clients[last.client].mode = IMMEDIATE)
        => /\ last.outcome # NoOutcome
           /\ last.result = IF last.outcome.ok
                              THEN Return([json |-> last.outcome.response.document])
                              ELSE Translated(last.outcome)

\* A get on an immediate instance answered 404 failed with 'Document not found'.
C7_Witness ==
    /\ last.op = "get"
    /\ clients[last.client].mode = IMMEDIATE
    /\ Is404(last.outcome)
    /\ last.result = Throw(Error("Document not found"))

(* C8, as claimed: every read operation on an immediate-mode instance turns a
   remote 404 into 'Document not found' and any other remote failure into
   'Service error'. *)
C8_Original ==
    (/\ last.op \in ReadOps
     /\ clients[last.client].mode = IMMEDIATE
     /\ last.outcome # NoOutcome
     /\ ~last.outcome.ok)
        => last.result = Translated(last.outcome)

(* C8, amended: get, search, getWhere, getAll and getAllWhere on an
   immediate-mode instance turn a remote 404 into 'Document not found' and
   any other remote failure into 'Service error'; getCollections turns every
   remote failure, a 404 included, into 'Service error'. *)
C8_ReadsTranslateErrors ==
    (/\ last.op \in ReadOps
     /\ clients[last.client].mode = IMMEDIATE
     /\ last.outcome # NoOutcome
     /\ ~last.outcome.ok)
        => last.result = IF last.op = "getCollections"
                              THEN Throw(Error("Service error"))
                              ELSE Translated(last.outcome)

\* A getCollections on an immediate instance answered 404 failed with 'Service error'.
C8_Witness ==
    /\ last.op = "getCollections"
    /\ clients[last.client].mode = IMMEDIATE
    /\ Is404(last.outcome)
    /\ last.result = Throw(Error("Service error"))

(* C9: beginTransaction() returns a new instance, distinct from every
   existing one, with the configuration of the instance it was called on,
   mode transaction and an empty queue; the step sends nothing, suspends
   nothing and leaves every existing instance (its mode, configuration and
   queue) as it was. *)
C9_BeginTransactionFrame ==
    [][(last' # last /\ last'.op = "beginTransaction")
          => LET c == last'.client
                 n == Len(clients) + 1
             IN /\ last'.result = Return([ref |-> n])
                /\ n # c
                /\ Len(clients') = n
                /\ clients'[n] = [config |-> clients[c].config, mode |-> TRANSACTION,
                                  transactionQueue |-> <<>>]
                /\ \A i \in ClientIds : clients'[i] = clients[i]
                /\ network' = network
                /\ calls' = calls]_vars

\* beginTransaction() on an immediate instance has returned a transaction instance.
C9_Witness ==
    /\ last.op = "beginTransaction"
    /\ last.result.kind = "return"
    /\ clients[last.client].mode = IMMEDIATE
    /\ clients[last.result.value.ref].mode = TRANSACTION
    /\ clients[last.result.value.ref].config = clients[last.client].config

\* process.env.X is present: set, and not to the empty string.
Present(v) == v # Unset /\ v # ""

\* The constructor step has created an immediate instance with configuration config.
Created(config) ==
    /\ last'.result = Return([ref |-> Len(clients) + 1])
    /\ clients' = Append(clients, [config |-> config, mode |-> IMMEDIATE,
                                   transactionQueue |-> <<>>])

(* C10: the constructor given a configuration creates the instance with
   that configuration, whatever the environment; given none, it creates the
   instance with KOJI_PROJECT_ID and KOJI_PROJECT_TOKEN of the environment
   when both are present and, when either is absent (unset or empty), fails
   with the configuration error and creates no instance. *)
C10_ConstructorConfiguration ==
    [][(last' # last /\ last'.op = "constructor")
          => IF last'.input # Undefined
               THEN Created(last'.input)
               ELSE IF Present(env.KOJI_PROJECT_ID) /\ Present(env.KOJI_PROJECT_TOKEN)
                   THEN Created([projectId |-> env.KOJI_PROJECT_ID,
                                 projectToken |-> env.KOJI_PROJECT_TOKEN])
                   ELSE /\ last'.result = Throw(ConfigurationError)
                        /\ clients' = clients]_vars

\* Without a configuration and without KOJI_PROJECT_ID the constructor has failed.
C10_Witness ==
    /\ last.op = "constructor"
    /\ last.input = Undefined
    /\ env.KOJI_PROJECT_ID = Unset
    /\ Present(env.KOJI_PROJECT_TOKEN)
    /\ last.result = Throw(ConfigurationError)
    /\ clients = <<>>

----------------------------------------------------------------------------
(* An application that starts calls without awaiting the calls it started
   before: it begins transactions from a parent and from its transactions,
   queues mutations on them and commits each once *)

CanStart == Cardinality(calls) < MaxOverlap /\ last = Nothing

\* The application commits an instance once.
Uncommitted(c) ==
    ~committed[c] /\ \A k \in calls : ~(k.client = c /\ k.op = "commitTransaction")

\* The remote call of a mutation or of a commit succeeds or fails.
OverlapOutcomes == {Resolved([status |-> "2xx"]), Rejected([name |-> "RequestError"])}

NextOverlap ==
    \/ CanStart /\ clients = <<>> /\ constructor(Undefined, IMMEDIATE) /\ UNCHANGED app
    \/ \E c \in ClientIds :
          CanStart /\ Len(clients) < MaxInstances /\ beginTransaction(c) /\ UNCHANGED app
    \/ \E c \in ClientIds, collection \in Collections, documentName \in DocumentNames,
          documentBody \in DocumentBodies :
          CanStart /\ clients[c].mode = TRANSACTION /\ set(c, collection, documentName, documentBody) /\ UNCHANGED app
    \/ \E c \in ClientIds, collection \in Collections, documentName \in DocumentNames :
          CanStart /\ clients[c].mode = TRANSACTION /\ delete(c, collection, documentName) /\ UNCHANGED app
    \/ \E c \in ClientIds : CanStart /\ Uncommitted(c) /\ commitTransaction(c) /\ UNCHANGED app
    \/ \E k \in calls : \E outcome \in OverlapOutcomes : Respond(k, outcome) /\ UNCHANGED app
    \/ \E k \in calls : Continue(k) /\ UNCHANGED app
    \/ Proceed /\ UNCHANGED app

SpecOverlap == InitStore /\ [][NextOverlap]_vars

----------------------------------------------------------------------------
(* Claims about the client against the faithful store (SpecStore) *)

\* A document as returned, less the identity field the store injects.
WithoutId(doc) == [f \in DOMAIN doc \ {"_id"} |-> doc[f]]

\* result is what a get of a document in the state doc must give.
Observes(result, doc) ==
    IF doc = Absent
        THEN result = Throw(Error("Document not found"))
        ELSE /\ result.kind = "return"
             /\ "json" \in DOMAIN result.value
             /\ WithoutId(result.value.json) = doc

\* A get on an immediate-mode instance has just settled.
GetSettled ==
    /\ last.op = "get"
    /\ last.outcome # NoOutcome
    /\ clients[last.client].mode = IMMEDIATE
    /\ app.call.op = "get"

\* What the application knows of the document of its last call.
Known == app.docs[app.call.key]

(* C11: against the faithful store, when the last write of a document was a
   set(c, d, D) on an immediate-mode instance that returned true, a get(c, d)
   on an immediate-mode instance returns D with only the identity field _id
   added. *)
C11_SetGetRoundTrip ==
    (GetSettled /\ Known # Unknown /\ Known.by = "set")
        => /\ Known.doc \in StoredBodies
           /\ last.result.kind = "return"
           /\ "json" \in DOMAIN last.result.value
           /\ "_id" \in DOMAIN last.result.value.json
           /\ WithoutId(last.result.value.json) = Known.doc

\* A get after set of the test document has returned it, with _id injected.
C11_Witness ==
    /\ GetSettled
    /\ Known # Unknown
    /\ Known.by = "set"
    /\ Known.doc = [stringKey |-> "testValue", numericKey |-> 100]
    /\ last.result = Return([json |-> [_id |-> "d1", stringKey |-> "testValue", numericKey |-> 100]])

(* C12: against the faithful store, when the last write of a document was a
   delete on an immediate-mode instance that returned true while the document
   existed, a get of it fails with 'Document not found'. *)
C12_DeleteThenGetNotFound ==
    (GetSettled /\ Known # Unknown /\ Known.by = "delete" /\ Known.was \notin {Unknown, Absent})
        => /\ store[app.call.key] = Absent
           /\ last.result = Throw(Error("Document not found"))

\* A get after the delete of an existing document has failed with 'Document not found'.
C12_Witness ==
    /\ GetSettled
    /\ Known # Unknown
    /\ Known.by = "delete"
    /\ Known.was = [stringKey |-> "testValue", numericKey |-> 100]
    /\ last.result = Throw(Error("Document not found"))

\* A transaction instance holds mutations of the document key and has not been committed.
QueuedUncommitted(key) ==
    \E t \in ClientIds :
        /\ clients[t].mode = TRANSACTION
        /\ ~committed[t]
        /\ \E i \in 1..Len(invoked[t]) : <<invoked[t][i].collection, invoked[t][i].documentName>> = key

(* C13: against the faithful store, a get on an immediate-mode instance after
   a commitTransaction() that resolved observes the document as the mutations
   invoked on the transaction instance, applied in the order of their
   invocation, leave it; and a get while a transaction instance holds
   uncommitted mutations of the document observes the document as it was
   known before them. *)
C13_CommitAppliesInOrder ==
    /\ (GetSettled /\ Known # Unknown /\ Known.by = "commit")
          => Observes(last.result, Known.doc)
    /\ (GetSettled /\ Known # Unknown /\ QueuedUncommitted(app.call.key))
          => Observes(last.result, Known.doc)

\* After a commit of set then update, a get has returned the updated document.
C13_Witness ==
    /\ GetSettled
    /\ Known # Unknown
    /\ Known.by = "commit"
    /\ \E t \in ClientIds :
          /\ committed[t]
          /\ Len(invoked[t]) = 2
          /\ invoked[t][1].op = "set"
          /\ invoked[t][2].op = "update"
    /\ last.result = Return([json |-> [_id |-> "d1", stringKey |-> "newValue", numericKey |-> 100]])

----------------------------------------------------------------------------
(* Claims about the queue and the mode (Spec) *)

\* The body a mutation call with the arguments m sends or queues.
BodyOf(m) ==
    IF m.op = "delete"
        THEN [collection |-> m.collection, documentName |-> m.documentName]
        ELSE [collection |-> m.collection, documentName |-> m.documentName,
              documentBody |-> m.documentBody]

\* The arguments a mutation call of op may be given.
ArgumentsOf(op) ==
    IF op = "delete"
        THEN {[op |-> op, collection |-> col, documentName |-> d] :
                 col \in Collections, d \in DocumentNames}
        ELSE {[op |-> op, collection |-> col, documentName |-> d, documentBody |-> b] :
                 col \in Collections, d \in DocumentNames, b \in DocumentBodies}

\* p is a prefix of q.
IsPrefix(p, q) == Len(p) <= Len(q) /\ SubSeq(q, 1, Len(p)) = p

(* C14: a call of set, update, arrayPush, arrayRemove or delete on a
   transaction-mode instance appends exactly one entry to the end of the
   queue and sends nothing; the entry's URI is the endpoint of the mutation
   and its body the arguments of the call, just as the URI and body of the
   request that the same call on an immediate-mode instance sends; when the
   call settles it returns undefined, neither true nor false nor an error,
   and the queue stays as it is. *)
C14_TransactionMutationEnqueues ==
    [][\A c \in ClientIds :
          /\ \A k \in calls' \ calls :
                (k.client = c /\ k.op \in MutationOps) =>
                    IF clients[c].mode = TRANSACTION
                        THEN LET q == clients[c].transactionQueue
                                 qq == clients'[c].transactionQueue
                                 m == invoked'[c][Len(invoked'[c])]
                             IN /\ qq = Append(q, qq[Len(q) + 1])
                                /\ m.op = k.op
                                /\ IsEndpoint(qq[Len(qq)].uri, EndpointPath(k.op))
                                /\ qq[Len(qq)].body = BodyOf(m)
                                /\ network' = network
                        ELSE \E r \in BagToSet(network') :
                                /\ r.ticket = k.ticket
                                /\ IsEndpoint(r.options.uri, EndpointPath(k.op))
                                /\ \E m \in ArgumentsOf(k.op) : r.options.body = BodyOf(m)
          /\ (/\ clients[c].mode = TRANSACTION
              /\ last' # last
              /\ last'.client = c
              /\ last'.op \in MutationOps)
                => /\ last'.result = Return(Undefined)
                   /\ clients'[c].transactionQueue = clients[c].transactionQueue]_vars

\* An arrayPush on a transaction instance with a queued set has returned undefined.
C14_Witness ==
    /\ last.op = "arrayPush"
    /\ clients[last.client].mode = TRANSACTION
    /\ last.result = Return(Undefined)
    /\ Len(clients[last.client].transactionQueue) = 2
    /\ IsEndpoint(clients[last.client].transactionQueue[1].uri, "/v1/store/set")
    /\ IsEndpoint(clients[last.client].transactionQueue[2].uri, "/v1/store/update/push")

(* C15: the queue of an instance only grows at its end: in every step the
   queue of every instance before the step is a prefix of its queue after
   the step; and a step in which commitTransaction() is invoked or settles,
   with success or with failure, leaves the queue of the instance exactly as
   it was. *)
C15_QueueAppendOnly ==
    [][\A c \in ClientIds :
          /\ IsPrefix(clients[c].transactionQueue, clients'[c].transactionQueue)
          /\ ((\E k \in calls' \ calls : k.client = c /\ k.op = "commitTransaction")
              \/ (last' # last /\ last'.client = c /\ last'.op = "commitTransaction"))
                => clients'[c].transactionQueue = clients[c].transactionQueue]_vars

\* A commit of two queued mutations has failed and the two are still queued.
C15_Witness ==
    /\ last.op = "commitTransaction"
    /\ last.outcome # NoOutcome
    /\ ~last.outcome.ok
    /\ Len(clients[last.client].transactionQueue) = 2
    /\ Len(invoked[last.client]) = 2

(* C16: no step changes the mode of an existing instance, and an instance a
   commit of which has settled is in transaction mode still. *)
C16_ModeNeverChanges ==
    [][\A c \in ClientIds :
          /\ clients'[c].mode = clients[c].mode
          /\ committed'[c] => clients'[c].mode = TRANSACTION]_vars

\* A mutation invoked on an instance after its commit was queued, not sent.
C16_Witness ==
    \E k \in calls :
        /\ k.op \in MutationOps
        /\ committed[k.client]
        /\ clients[k.client].mode = TRANSACTION
        /\ k.awaiting = "undefined"
        /\ network = EmptyBag

(* C17: in every reachable state the queue of every immediate-mode instance
   is empty. *)
C17_ImmediateQueueEmpty ==
    \A c \in ClientIds : clients[c].mode = IMMEDIATE => clients[c].transactionQueue = <<>>

\* A mutation of an immediate instance is in flight while a transaction of it holds one.
C17_Witness ==
    \E k \in calls :
        /\ k.op \in MutationOps
        /\ clients[k.client].mode = IMMEDIATE
        /\ clients[k.client].transactionQueue = <<>>
        /\ \E t \in ClientIds :
              clients[t].mode = TRANSACTION /\ clients[t].transactionQueue # <<>>

\* The number of requests in flight that the invocation k sent.
InFlightOf(k) ==
    LET mine == {r \in BagToSet(network) : r.ticket = k.ticket}
        count[rs \in SUBSET mine] ==
            IF rs = {} THEN 0
            ELSE LET r == CHOOSE x \in rs : TRUE IN CopiesIn(r, network) + count[rs \ {r}]
    IN count[mine]

\* The invocations that call the remote service: every read, mutation and
\* object-store operation of an immediate-mode instance, every commit of a
\* transaction-mode instance.
CallsRemote(k) ==
    \/ clients[k.client].mode = IMMEDIATE /\ k.op \in ReadOps \cup MutationOps \cup ObjectStoreOps
    \/ clients[k.client].mode = TRANSACTION /\ k.op = "commitTransaction"

(* C20: an invocation that calls the remote service has, while it is
   suspended, exactly one request in flight, sent by its instance; and no
   request is in flight but those of the suspended invocations, so once an
   invocation has settled, with success or with failure, nothing of it is
   sent again. *)
C20_NothingRetried ==
    /\ \A k \in calls :
          CallsRemote(k) => /\ k.awaiting = "promise"
                            /\ InFlightOf(k) = 1
                            /\ \A r \in RequestsOf(k) : r.by = k.client
    /\ BagCardinality(network) = Cardinality({k \in calls : CallsRemote(k)})
    /\ (last.outcome # NoOutcome /\ calls = {}) => network = EmptyBag

\* A read that the remote service refused has failed and nothing is in flight.
C20_Witness ==
    /\ last.op = "getCollections"
    /\ clients[last.client].mode = IMMEDIATE
    /\ last.outcome = Rejected([name |-> "StatusCodeError", statusCode |-> 500])
    /\ last.result = Throw(Error("Service error"))
    /\ calls = {}
    /\ network = EmptyBag

\* A commitTransaction() has just settled, its remote call having failed.
CommitFailed ==
    /\ last.op = "commitTransaction"
    /\ last.outcome # NoOutcome
    /\ ~last.outcome.ok

(* C21: when the remote call of commitTransaction() fails, the call throws
   the very error the remote call failed with: it does not return false, as a
   single mutation does, and does not throw the 'Service error' of the reads;
   the instance is in transaction mode still, and its queue holds, in order,
   exactly the mutations invoked on it, as it did before the commit. *)
C21_FailedCommitRaises ==
    CommitFailed
        => /\ last.result = [kind |-> "throw", error |-> last.outcome.err]
           /\ last.result # Return([bool |-> FALSE])
           /\ last.result # Throw(Error("Service error"))
           /\ clients[last.client].mode = TRANSACTION
           /\ Len(clients[last.client].transactionQueue) = Len(invoked[last.client])
           /\ \A i \in 1..Len(invoked[last.client]) :
                 /\ IsEndpoint(clients[last.client].transactionQueue[i].uri,
                               EndpointPath(invoked[last.client][i].op))
                 /\ clients[last.client].transactionQueue[i].body
                        = BodyOf(invoked[last.client][i])

\* A commit of a set and a delete was answered 500 and has thrown that error.
C21_Witness ==
    /\ CommitFailed
    /\ last.outcome.err = [name |-> "StatusCodeError", statusCode |-> 500]
    /\ last.result = Throw([name |-> "StatusCodeError", statusCode |-> 500])
    /\ clients[last.client].mode = TRANSACTION
    /\ Len(clients[last.client].transactionQueue) = 2
    /\ IsEndpoint(clients[last.client].transactionQueue[1].uri, "/v1/store/set")
    /\ IsEndpoint(clients[last.client].transactionQueue[2].uri, "/v1/store/delete")

----------------------------------------------------------------------------
(* Claims about several instances and overlapping calls (SpecOverlap) *)

\* The operations list of the commit request r is, in order, the mutations ms.
Carries(r, ms) ==
    /\ IsEndpoint(r.options.uri, "/v1/store/transaction")
    /\ Len(r.options.body.operations) = Len(ms)
    /\ \A i \in 1..Len(ms) : IsOperationOf(r.options.body.operations[i], ms[i])

(* C18: with a parent, transactions begun from it and transactions begun
   from a transaction, and calls that overlap: a step changes the queue of an
   instance only if it is the invocation of a call on that very instance, and
   the request of a commitTransaction() carries the mutations invoked on the
   instance committed, all of them and no others. *)
C18_InstancesShareNoState ==
    [][/\ \A c \in ClientIds :
             clients'[c].transactionQueue # clients[c].transactionQueue
                 => \E k \in calls' \ calls : k.client = c
       /\ \A k \in calls' \ calls :
             k.op = "commitTransaction"
                 => \E r \in BagToSet(network') :
                       /\ r.ticket = k.ticket
                       /\ r.by = k.client
                       /\ Carries(r, invoked[k.client])]_vars

\* Two transactions hold different mutations and one more was begun from a transaction.
C18_Witness ==
    /\ Len(clients) = 4
    /\ last.op = "beginTransaction"
    /\ clients[last.client].mode = TRANSACTION
    /\ clients[last.client].transactionQueue # <<>>
    /\ clients[last.result.value.ref].transactionQueue = <<>>
    /\ \E t \in ClientIds :
          /\ t # last.client
          /\ clients[t].mode = TRANSACTION
          /\ clients[t].transactionQueue # <<>>
          /\ clients[t].transactionQueue # clients[last.client].transactionQueue

(* C19: also while mutation calls on one transaction-mode instance overlap,
   the queue of the instance holds one entry for each mutation invoked on it,
   the entry of a call being there while the call is still suspended, in the
   order of the invocations, two equal mutations being two entries. *)
C19_OverlappingCallsQueuedInOrder ==
    \A c \in ClientIds :
        clients[c].mode = TRANSACTION
            => /\ Len(clients[c].transactionQueue) = Len(invoked[c])
               /\ \A i \in 1..Len(invoked[c]) :
                     /\ IsEndpoint(clients[c].transactionQueue[i].uri, EndpointPath(invoked[c][i].op))
                     /\ clients[c].transactionQueue[i].body = BodyOf(invoked[c][i])

\* Two equal set calls on one transaction instance are both suspended and both queued.
C19_Witness ==
    \E k1 \in calls, k2 \in calls :
        /\ k1 # k2
        /\ k1.client = k2.client
        /\ k1.op = "set"
        /\ k2.op = "set"
        /\ clients[k1.client].mode = TRANSACTION
        /\ Len(clients[k1.client].transactionQueue) = 2
        /\ clients[k1.client].transactionQueue[1] = clients[k1.client].transactionQueue[2]

====
